---- MODULE Spec2Model ----
(***************************************************************************)
(* Model of backend/app.py: the /api/process-video handler                 *)
(* (process_video) and the frame analysis it drives (analyze_frames):      *)
(* frame sampling, classifier-response parsing, the best-frame-per-product *)
(* fold, ranking and the optional enhancement of the top product.          *)
(*                                                                         *)
(* Strings are sequences of characters (product names, titles, urls) or of *)
(* lexical tokens (classifier responses).  Python indices are kept 0-based *)
(* with -1 for "not found", as str.find / str.rfind return them.           *)
(***************************************************************************)
EXTENDS Integers, Sequences, FiniteSets, TLC

\* ---------------------------------------------------------------- bounds
\* Largest number of frames extract_frames hands to analyze_frames in Spec.
MaxFrames == 2
\* Largest number of entries in one classifier payload's products list.
MaxDetections == 2
\* Largest frame count the sampler is applied to in SpecSample.
MaxFrameCount == 520
\* Largest classifier response, in tokens, the parser is applied to in SpecParse.
MaxTextLen == 6

\* ------------------------------------------------------ program constants
SampleStride == 5
MaxSampled == 50
OffTargetPenalty == 3
FrameIntervalSeconds == 5
\* frames per second of the decoded video (cap.get(CAP_PROP_FPS)); any
\* positive value gives the same frame_number / timestamp relation.
Fps == 2

\* Python values that may be a string, None or something else
None == [kind |-> "none", chars |-> <<>>]

Str(chars) == [kind |-> "str", chars |-> chars]

NotAString == [kind |-> "int", chars |-> <<>>]

VARIABLES
    pc,              \* position of process_video / analyze_frames
    request,         \* the request body: [url, product_title]
    temp_dir,        \* TRUE while the directory made by mkdtemp exists
    frames,          \* result of extract_frames
    sampled_frames,  \* analyze_frames: the sampled frames
    idx,             \* analyze_frames: 1-based position in sampled_frames
    detected,        \* analyze_frames: entries of the current frame still to observe
    products,        \* analyze_frames: the products dict, in insertion order
    prod_list,       \* value returned by analyze_frames
    products_sorted, \* process_video: the ranked list
    enh,             \* outcome of each step of the enhancement stage
    response,        \* what the handler hands back
    frame_entry,     \* history: products as they were when the current frame began
    outcomes,        \* history: how each processed frame ended
    seen,            \* history: every detection that reached the aggregation branch
    fn_in,           \* input of the pure function under test (SpecSample, SpecParse)
    fn_out           \* its result

vars == <<pc, request, temp_dir, frames, sampled_frames, idx, detected, products,
          prod_list, products_sorted, enh, response, frame_entry, outcomes, seen,
          fn_in, fn_out>>

\* ------------------------------------------------------------ sequences
Max2(a, b) == IF a > b THEN a ELSE b

Min2(a, b) == IF a < b THEN a ELSE b

\* s[a:b] for 0 <= a, b <= len(s)
Slice(s, a, b) == SubSeq(s, a + 1, b)

\* s[::k] for k >= 1
Stride(s, k) == [i \in 1..((Len(s) + k - 1) \div k) |-> s[(i - 1) * k + 1]]

\* s[:n]
Take(s, n) == SubSeq(s, 1, Min2(n, Len(s)))

SeqsUpTo(S, n) == UNION {[1..k -> S] : k \in 0..n}

\* needle in hay, for Python strings
Contains(hay, needle) ==
    \E off \in 0..(Len(hay) - Len(needle)) :
        \A k \in 1..Len(needle) : hay[off + k] = needle[k]

\* ------------------------------------------------------------- sampling
\* the sampler without the final [:50]
SampleFramesUntruncated(fs) ==
    LET first == IF Len(fs) > SampleStride THEN Stride(fs, SampleStride) ELSE fs
    IN  IF Len(first) > MaxSampled
        THEN Stride(first, Len(first) \div MaxSampled)
        ELSE first

\* analyze_frames, lines 217-220
SampleFrames(fs) ==
    LET first == IF Len(fs) > SampleStride THEN Stride(fs, SampleStride) ELSE fs
    IN  IF Len(first) > MaxSampled
        THEN Take(Stride(first, Len(first) \div MaxSampled), MaxSampled)
        ELSE first

\* -------------------------------------------------------------- parsing
\* A classifier response is a sequence of tokens:
\*   "F"  the fence marker ```            "J"  the word json
\*   "{"  "}"  braces                     "P"  the member "products": [...]
\*   "N"  a JSON value that is no object ([], null, 7)
\*   "x"  prose                           "w"  white space
\* so the text ```json is the token "F" directly followed by "J".
Tokens == {"F", "J", "{", "}", "P", "N", "x", "w"}

\* str.find(tok, start)
Find(s, tok, start) ==
    LET hits == {i \in start..(Len(s) - 1) : s[i + 1] = tok}
    IN  IF hits = {} THEN -1 ELSE CHOOSE i \in hits : \A j \in hits : i <= j

\* str.rfind(tok)
RFind(s, tok) ==
    LET hits == {i \in 0..(Len(s) - 1) : s[i + 1] = tok}
    IN  IF hits = {} THEN -1 ELSE CHOOSE i \in hits : \A j \in hits : i >= j

\* str.find('```json')
FindFenceJson(s) ==
    LET hits == {i \in 0..(Len(s) - 2) : s[i + 1] = "F" /\ s[i + 2] = "J"}
    IN  IF hits = {} THEN -1 ELSE CHOOSE i \in hits : \A j \in hits : i <= j

\* str.strip()
Strip(s) ==
    LET ink == {i \in 1..Len(s) : s[i] # "w"}
    IN  IF ink = {} THEN <<>>
        ELSE SubSeq(s, CHOOSE i \in ink : \A j \in ink : i <= j,
                       CHOOSE i \in ink : \A j \in ink : i >= j)

\* lines 292-301: the text inside the fence, when there is a closed, non-empty one
UnFence(cleaned_text) ==
    IF FindFenceJson(cleaned_text) >= 0
    THEN LET json_start == FindFenceJson(cleaned_text) + 2
             json_end   == Find(cleaned_text, "F", json_start)
         IN  IF json_end > json_start
             THEN Strip(Slice(cleaned_text, json_start, json_end))
             ELSE cleaned_text
    ELSE IF Find(cleaned_text, "F", 0) >= 0
    THEN LET json_start == Find(cleaned_text, "F", 0) + 1
             json_end   == Find(cleaned_text, "F", json_start)
         IN  IF json_end > json_start
             THEN Strip(Slice(cleaned_text, json_start, json_end))
             ELSE cleaned_text
    ELSE cleaned_text

\* the span cut at the first "}" instead of the last
BraceSpanFirstClose(cleaned_text) ==
    LET json_start == Find(cleaned_text, "{", 0)
        json_end   == Find(cleaned_text, "}", 0) + 1
    IN  IF json_start >= 0 /\ json_end > json_start
        THEN Slice(cleaned_text, json_start, json_end)
        ELSE cleaned_text

\* lines 303-306: from the first "{" to the last "}"
BraceSpan(cleaned_text) ==
    LET json_start == Find(cleaned_text, "{", 0)
        json_end   == RFind(cleaned_text, "}") + 1
    IN  IF json_start >= 0 /\ json_end > json_start
        THEN Slice(cleaned_text, json_start, json_end)
        ELSE cleaned_text

\* json.loads on the token text: white space between tokens is ignored; the
\* only well-formed documents are {} , { "products": [...] } and a bare
\* non-object value.
JsonLoads(text) ==
    LET doc == SelectSeq(text, LAMBDA t : t # "w")
    IN  IF doc = <<"{", "P", "}">> THEN "object_with_products"
        ELSE IF doc = <<"{", "}">> THEN "object"
        ELSE IF doc = <<"N">> THEN "non_object"
        ELSE "JSONDecodeError"

\* lines 291-311 and the two except clauses (344, 347): what the frame's
\* response text yields.
\*   "products"     detected is the payload's products list
\*   "no_products"  detected is the default []
\*   "decode_error" json.JSONDecodeError, inner except
\*   "not_object"   result.get raises, outer except
ParseResponse(response_text) ==
    LET result == JsonLoads(BraceSpan(UnFence(Strip(response_text))))
    IN  IF result = "JSONDecodeError" THEN "decode_error"
        ELSE IF result = "non_object" THEN "not_object"
        ELSE IF result = "object" THEN "no_products"
        ELSE "products"

\* ---------------------------------------------------------- aggregation
\* str.lower(), character by character
LowerChar(c) == IF c = "A" THEN "a" ELSE IF c = "B" THEN "b" ELSE IF c = "C" THEN "c" ELSE c

Lower(str) == [i \in 1..Len(str) |-> LowerChar(str[i])]

\* Python truth value of the optional product_title
Truthy(v) == v.kind = "int" \/ (v.kind = "str" /\ v.chars # <<>>)

\* the title compared without lower()
AdjustedScoreCaseSensitive(product_title, product_name, quality_score) ==
    IF Truthy(product_title) /\ ~Contains(product_name, product_title.chars)
    THEN Max2(0, quality_score - OffTargetPenalty)
    ELSE quality_score

\* lines 314-318: the score a detection is stored or compared with
AdjustedScore(product_title, product_name, quality_score) ==
    IF Truthy(product_title)
       /\ ~Contains(Lower(product_name), Lower(product_title.chars))
    THEN Max2(0, quality_score - OffTargetPenalty)
    ELSE quality_score

\* image_to_base64: the JPEG encoding of the frame's image, base64 text
ImageToBase64(image) == <<"jpeg_b64", image>>

\* extract_frames, lines 45-66, on a video of n sampling intervals: one frame
\* every frame_interval = int(fps * interval_seconds) decoded frames
ExtractFrames(n) ==
    [i \in 1..n |-> [frame_number |-> (i - 1) * (Fps * FrameIntervalSeconds),
                     timestamp    |-> ((i - 1) * (Fps * FrameIntervalSeconds)) \div Fps,
                     image        |-> <<"image", i - 1>>]]

\* position of product_name among the keys of the dict, 0 when absent
KeyIndex(prods, product_name) ==
    IF \E i \in 1..Len(prods) : prods[i].name = product_name
    THEN CHOOSE i \in 1..Len(prods) : prods[i].name = product_name
    ELSE 0

\* lines 321-326 / 335-340
BestFrame(frame_data, quality_score) ==
    [frame_number |-> frame_data.frame_number,
     timestamp    |-> frame_data.timestamp,
     quality_score |-> quality_score,
     image_base64 |-> ImageToBase64(frame_data.image)]

\* the fold with the comparison left out: the latest detection wins
ObserveLatestWins(prods, frame_data, product_name, quality_score) ==
    LET i == KeyIndex(prods, product_name)
    IN  IF i = 0
        THEN Append(prods, [title |-> product_name, name |-> product_name,
                            best_frame |-> BestFrame(frame_data, quality_score)])
        ELSE [prods EXCEPT ![i].best_frame = BestFrame(frame_data, quality_score),
                           ![i].title = product_name]

\* the fold replacing the record on an equal score too
ObserveReplaceOnTie(prods, frame_data, product_name, quality_score) ==
    LET i == KeyIndex(prods, product_name)
    IN  IF i = 0
        THEN Append(prods, [title |-> product_name, name |-> product_name,
                            best_frame |-> BestFrame(frame_data, quality_score)])
        ELSE IF quality_score >= prods[i].best_frame.quality_score
        THEN [prods EXCEPT ![i].best_frame = BestFrame(frame_data, quality_score),
                           ![i].title = product_name]
        ELSE prods

\* lines 320-343: one detection folded into the products dict
Observe(prods, frame_data, product_name, quality_score) ==
    LET i == KeyIndex(prods, product_name)
    IN  IF i = 0
        THEN Append(prods, [title |-> product_name, name |-> product_name,
                            best_frame |-> BestFrame(frame_data, quality_score)])
        ELSE IF quality_score > prods[i].best_frame.quality_score
        THEN [prods EXCEPT ![i].best_frame = BestFrame(frame_data, quality_score),
                           ![i].title = product_name]
        ELSE prods

\* -------------------------------------------------------------- ranking
\* key of the sort at line 385
ScoreKey(p) == p.best_frame.quality_score

\* one element placed behind every element whose key is at least its own
InsertRanked(ranked, p) ==
    LET k == Cardinality({i \in 1..Len(ranked) : ScoreKey(ranked[i]) >= ScoreKey(p)})
    IN  SubSeq(ranked, 1, k) \o <<p>> \o SubSeq(ranked, k + 1, Len(ranked))

\* one element placed in front of the elements of equal key
InsertRankedBeforeTies(ranked, p) ==
    LET k == Cardinality({i \in 1..Len(ranked) : ScoreKey(ranked[i]) > ScoreKey(p)})
    IN  SubSeq(ranked, 1, k) \o <<p>> \o SubSeq(ranked, k + 1, Len(ranked))

RECURSIVE SortByScoreUnstable(_)
\* a descending sort that reverses the order of equal keys
SortByScoreUnstable(prods) ==
    IF prods = <<>> THEN <<>>
    ELSE InsertRankedBeforeTies(SortByScoreUnstable(SubSeq(prods, 1, Len(prods) - 1)),
                                prods[Len(prods)])

RECURSIVE SortByScore(_)
\* line 385: sorted(products, key=quality_score, reverse=True), a stable sort
SortByScore(prods) ==
    IF prods = <<>> THEN <<>>
    ELSE InsertRanked(SortByScore(SubSeq(prods, 1, Len(prods) - 1)), prods[Len(prods)])

\* ---------------------------------------------------------- enhancement
\* What each step of the enhancement stage did:
\*   save_frame     lines 395-398  "ok" | "raise"
\*   prompt         line 402       "prompt" | "None"  (build_generation_prompt_from_frame
\*                                 catches its own failures and returns None)
\*   image          line 410       "image" | "None"   (generate_image_with_imagen_from_text
\*                                 likewise)
\*   save_enhanced  lines 414-421  "ok" | "raise"
\* "skipped" marks a step that control never reached.
NotAttempted ==
    [save_frame |-> "skipped", prompt |-> "skipped", image |-> "skipped",
     save_enhanced |-> "skipped"]

EnhOutcomes ==
    {o \in [save_frame : {"ok", "raise"}, prompt : {"prompt", "None", "skipped"},
            image : {"image", "None", "skipped"},
            save_enhanced : {"ok", "raise", "skipped"}] :
        /\ (o.save_frame = "raise") <=> (o.prompt = "skipped")
        /\ (o.save_frame = "raise") <=> (o.image = "skipped")
        /\ (o.image = "image") <=> (o.save_enhanced # "skipped")}

\* the stage with the path recorded before the file is written
EnhancePathBeforeWrite(ranked, o) ==
    IF ranked = <<>> \/ o.save_frame = "raise" \/ o.image # "image"
    THEN ranked
    ELSE [ranked EXCEPT ![1] = @ @@ [enhanced_image_base64 |-> "generated_jpeg_b64",
                                     enhanced_image_path |-> <<"enhanced_images", @.title>>]]

\* lines 388-427: the ranked list after the enhancement stage
Enhance(ranked, o) ==
    IF ranked = <<>> \/ o.save_frame = "raise" \/ o.image # "image"
    THEN ranked
    ELSE IF o.save_enhanced = "raise"
    THEN [ranked EXCEPT ![1] = @ @@ [enhanced_image_base64 |-> "generated_jpeg_b64"]]
    ELSE [ranked EXCEPT ![1] = @ @@ [enhanced_image_base64 |-> "generated_jpeg_b64",
                                     enhanced_image_path |-> <<"enhanced_images", @.title>>]]

\* --------------------------------------------------------------- inputs
Urls ==
    {None, Str(<<>>), NotAString,
     Str(<<"https://", "www.", "youtube.com", "/watch">>),
     Str(<<"https://", "example.com", "/v">>)}

ProductTitles == {None, Str(<<>>), Str(<<"a", "B">>)}

ProductNames == {<<"A", "B", "c">>, <<"c">>}

Scores == {1, 4}

\* an entry of a products list: a dict with name and quality_score, or a
\* value that is no dict
Malformed == [kind |-> "other", name |-> <<>>, quality_score |-> 0]

Entries ==
    [kind : {"dict"}, name : ProductNames, quality_score : Scores] \cup {Malformed}

Payloads == SeqsUpTo(Entries, MaxDetections)

ResponseTexts ==
    {<<"{", "P", "}">>,
     <<"x", "F", "J", "w", "{", "P", "}", "w", "F">>,
     <<"{", "}">>, <<"N">>, <<"x">>}

NoResponse == [pending |-> TRUE]

ErrorResponse(msg) == [error |-> msg]

\* ------------------------------------------------------------------ Init
Init ==
    /\ pc = "receive"
    /\ request \in [url : Urls, product_title : ProductTitles]
    /\ temp_dir = FALSE
    /\ frames = <<>>
    /\ sampled_frames = <<>>
    /\ idx = 0
    /\ detected = <<>>
    /\ products = <<>>
    /\ prod_list = <<>>
    /\ products_sorted = <<>>
    /\ enh = NotAttempted
    /\ response = NoResponse
    /\ frame_entry = <<>>
    /\ outcomes = <<>>
    /\ seen = {}
    /\ fn_in = <<>>
    /\ fn_out = <<>>

\* ------------------------------------------------------- process_video
\* lines 358-368: read the request, reject a missing or foreign url, make
\* the temporary directory.  Nothing here is inside the try block.
Receive ==
    /\ pc = "receive"
    /\ IF ~Truthy(request.url)
       THEN /\ response' = ErrorResponse("YouTube URL is required")
            /\ pc' = "done"
            /\ UNCHANGED temp_dir
       ELSE IF request.url.kind # "str"
       THEN \* 'youtube.com' not in youtube_url raises TypeError
            /\ response' = [exception |-> "TypeError"]
            /\ pc' = "done"
            /\ UNCHANGED temp_dir
       ELSE IF /\ ~Contains(request.url.chars, <<"youtube.com">>)
               /\ ~Contains(request.url.chars, <<"youtu.be">>)
       THEN /\ response' = ErrorResponse("Invalid YouTube URL")
            /\ pc' = "done"
            /\ UNCHANGED temp_dir
       ELSE /\ temp_dir' = TRUE
            /\ pc' = "download"
            /\ UNCHANGED response
    /\ UNCHANGED <<request, frames, sampled_frames, idx, detected, products, prod_list,
                   products_sorted, enh, frame_entry, outcomes, seen, fn_in, fn_out>>

\* lines 371-373
Download ==
    /\ pc = "download"
    /\ \E result \in {"file", "no_file", "raise"} :
         CASE result = "file" ->
                /\ pc' = "extract"
                /\ UNCHANGED response
           [] result = "no_file" ->
                /\ response' = ErrorResponse("Failed to download video")
                /\ pc' = "finally"
           [] result = "raise" ->
                /\ response' = ErrorResponse("Processing failed: download")
                /\ pc' = "finally"
    /\ UNCHANGED <<request, temp_dir, frames, sampled_frames, idx, detected, products,
                   prod_list, products_sorted, enh, frame_entry, outcomes, seen,
                   fn_in, fn_out>>

\* lines 375-377
Extract ==
    /\ pc = "extract"
    /\ \/ \E n \in 0..MaxFrames :
            /\ frames' = ExtractFrames(n)
            /\ IF n = 0
               THEN /\ response' = ErrorResponse("No frames extracted from video")
                    /\ pc' = "finally"
               ELSE /\ pc' = "analyze"
                    /\ UNCHANGED response
       \/ /\ response' = ErrorResponse("Processing failed: extract")
          /\ pc' = "finally"
          /\ UNCHANGED frames
    /\ UNCHANGED <<request, temp_dir, sampled_frames, idx, detected, products, prod_list,
                   products_sorted, enh, frame_entry, outcomes, seen, fn_in, fn_out>>

\* ------------------------------------------------------ analyze_frames
\* lines 215-220
BeginAnalyze ==
    /\ pc = "analyze"
    /\ sampled_frames' = SampleFrames(frames)
    /\ products' = <<>>
    /\ idx' = 1
    /\ pc' = "frame"
    /\ UNCHANGED <<request, temp_dir, frames, detected, prod_list, products_sorted, enh,
                   response, frame_entry, outcomes, seen, fn_in, fn_out>>

\* the loop without the except clause at line 347: a failed classifier
\* call reaches the handler's own except clause
NextFrameUnguarded(outcome) ==
    /\ outcomes' = Append(outcomes, outcome)
    /\ detected' = <<>>
    /\ IF outcome = "call_failed"
       THEN /\ response' = ErrorResponse("Processing failed: classifier")
            /\ pc' = "finally"
            /\ UNCHANGED idx
       ELSE /\ idx' = idx + 1
            /\ pc' = "frame"
            /\ UNCHANGED response

\* lines 344-349 and the end of the loop body: the frame is finished, in
\* error or not, and the loop moves on to the next sampled frame
NextFrame(outcome) ==
    /\ outcomes' = Append(outcomes, outcome)
    /\ detected' = <<>>
    /\ idx' = idx + 1
    /\ pc' = "frame"
    /\ UNCHANGED response

\* lines 274-311, 344-349: the classifier is called on the frame and its
\* response parsed
ClassifyFrame ==
    /\ pc = "frame"
    /\ idx <= Len(sampled_frames)
    /\ frame_entry' = products
    /\ \/ NextFrame("call_failed")
       \/ \E response_text \in ResponseTexts, payload \in Payloads :
            LET parsed == ParseResponse(response_text)
            IN  CASE parsed = "decode_error" -> NextFrame("json_failed")
                  [] parsed = "not_object" -> NextFrame("exception")
                  [] parsed = "no_products" -> NextFrame("ok")
                  [] parsed = "products" ->
                       IF payload = <<>>
                       THEN NextFrame("ok")
                       ELSE /\ detected' = payload
                            /\ pc' = "observe"
                            /\ UNCHANGED <<outcomes, idx, response>>
    /\ UNCHANGED <<request, temp_dir, frames, sampled_frames, products, prod_list,
                   products_sorted, enh, seen, fn_in, fn_out>>

\* lines 312-343, 347-349: one iteration of the loop over detected
ObserveDetection ==
    /\ pc = "observe"
    /\ LET product_info == Head(detected)
           frame_data   == sampled_frames[idx]
       IN  IF product_info.kind # "dict"
           THEN \* product_info.get raises; the outer except skips the frame
                /\ NextFrame("exception")
                /\ UNCHANGED <<products, seen>>
           ELSE LET quality_score == AdjustedScore(request.product_title,
                                                   product_info.name,
                                                   product_info.quality_score)
                IN  /\ products' = Observe(products, frame_data, product_info.name,
                                           quality_score)
                    /\ seen' = seen \cup {[name |-> product_info.name,
                                           reported |-> product_info.quality_score,
                                           adjusted |-> quality_score,
                                           frame |-> idx]}
                    /\ IF Tail(detected) = <<>>
                       THEN NextFrame("ok")
                       ELSE /\ detected' = Tail(detected)
                            /\ UNCHANGED <<outcomes, idx, pc, response>>
    /\ UNCHANGED <<request, temp_dir, frames, sampled_frames, prod_list, products_sorted,
                   enh, frame_entry, fn_in, fn_out>>

\* lines 351-353
ReturnAnalysis ==
    /\ pc = "frame"
    /\ idx > Len(sampled_frames)
    /\ prod_list' = products
    /\ pc' = "rank"
    /\ UNCHANGED <<request, temp_dir, frames, sampled_frames, idx, detected, products,
                   products_sorted, enh, response, frame_entry, outcomes, seen,
                   fn_in, fn_out>>

\* ------------------------------------------- process_video, continued
\* lines 379-386
Rank ==
    /\ pc = "rank"
    /\ products_sorted' = SortByScore(prod_list)
    /\ pc' = "enhance"
    /\ UNCHANGED <<request, temp_dir, frames, sampled_frames, idx, detected, products,
                   prod_list, enh, response, frame_entry, outcomes, seen, fn_in, fn_out>>

\* lines 388-427
EnhanceTop ==
    /\ pc = "enhance"
    /\ IF products_sorted = <<>>
       THEN UNCHANGED <<products_sorted, enh>>
       ELSE \E o \in EnhOutcomes :
              /\ enh' = o
              /\ products_sorted' = Enhance(products_sorted, o)
    /\ pc' = "respond"
    /\ UNCHANGED <<request, temp_dir, frames, sampled_frames, idx, detected, products,
                   prod_list, response, frame_entry, outcomes, seen, fn_in, fn_out>>

\* lines 429-433
Respond ==
    /\ pc = "respond"
    /\ response' = [success |-> TRUE,
                    total_frames_analyzed |-> Len(frames),
                    products |-> products_sorted]
    /\ pc' = "finally"
    /\ UNCHANGED <<request, temp_dir, frames, sampled_frames, idx, detected, products,
                   prod_list, products_sorted, enh, frame_entry, outcomes, seen,
                   fn_in, fn_out>>

\* the directory removed at the end of the try body instead of in a finally
\* clause: only the success path reaches the removal
CleanupOnSuccessOnly ==
    /\ pc = "finally"
    /\ temp_dir' = IF "success" \in DOMAIN response THEN FALSE ELSE temp_dir
    /\ pc' = "done"
    /\ UNCHANGED <<request, frames, sampled_frames, idx, detected, products, prod_list,
                   products_sorted, enh, response, frame_entry, outcomes, seen,
                   fn_in, fn_out>>

\* lines 436-438: the finally clause, then the handler returns
Cleanup ==
    /\ pc = "finally"
    /\ temp_dir' = FALSE
    /\ pc' = "done"
    /\ UNCHANGED <<request, frames, sampled_frames, idx, detected, products, prod_list,
                   products_sorted, enh, response, frame_entry, outcomes, seen,
                   fn_in, fn_out>>

Next ==
    \/ Receive
    \/ Download
    \/ Extract
    \/ BeginAnalyze
    \/ ClassifyFrame
    \/ ObserveDetection
    \/ ReturnAnalysis
    \/ Rank
    \/ EnhanceTop
    \/ Respond
    \/ Cleanup

Spec == Init /\ [][Next]_vars

\* ------------------------------------------- the sampler on its own
\* Every variable of the handler keeps its initial value; fn_in is the
\* extracted frame sequence, fn_out what the sampling step makes of it.
Idle ==
    /\ request = [url |-> None, product_title |-> None]
    /\ temp_dir = FALSE
    /\ frames = <<>>
    /\ sampled_frames = <<>>
    /\ idx = 0
    /\ detected = <<>>
    /\ products = <<>>
    /\ prod_list = <<>>
    /\ products_sorted = <<>>
    /\ enh = NotAttempted
    /\ response = NoResponse
    /\ frame_entry = <<>>
    /\ outcomes = <<>>
    /\ seen = {}

InitSample ==
    /\ Idle
    /\ pc = "sample"
    /\ fn_in \in {ExtractFrames(n) : n \in 0..MaxFrameCount}
    /\ fn_out = <<>>

ApplySample ==
    /\ pc = "sample"
    /\ fn_out' = SampleFrames(fn_in)
    /\ pc' = "sampled"
    /\ UNCHANGED <<request, temp_dir, frames, sampled_frames, idx, detected, products,
                   prod_list, products_sorted, enh, response, frame_entry, outcomes,
                   seen, fn_in>>

NextSample == ApplySample

SpecSample == InitSample /\ [][NextSample]_vars

\* -------------------------------------------- the parser on its own
InitParse ==
    /\ Idle
    /\ pc = "parse"
    /\ \E k \in 0..MaxTextLen : fn_in \in [1..k -> Tokens]
    /\ fn_out = <<>>

ApplyParse ==
    /\ pc = "parse"
    /\ fn_out' = <<ParseResponse(fn_in)>>
    /\ pc' = "parsed"
    /\ UNCHANGED <<request, temp_dir, frames, sampled_frames, idx, detected, products,
                   prod_list, products_sorted, enh, response, frame_entry, outcomes,
                   seen, fn_in>>

NextParse == ApplyParse

SpecParse == InitParse /\ [][NextParse]_vars

\* =============================================================== claims
ProductIndices == 1..Len(products)

SeenFor(name) == {s \in seen : s.name = name}

\* the greatest adjusted score among the detections observed for name
MaxAdjusted(name) ==
    CHOOSE m \in {s.adjusted : s \in SeenFor(name)} :
        \A s \in SeenFor(name) : s.adjusted <= m

\* the first sampled frame (1-based position) in which name reached score m
EarliestFrameWith(name, m) ==
    CHOOSE f \in {s.frame : s \in {t \in SeenFor(name) : t.adjusted = m}} :
        \A s \in SeenFor(name) : s.adjusted = m => f <= s.frame

C1_ScoreIsMaxSoFar ==
    /\ {products[i].name : i \in ProductIndices} = {s.name : s \in seen}
    /\ \A i \in ProductIndices :
         products[i].best_frame.quality_score = MaxAdjusted(products[i].name)

C1_NeverDecreasesNorRemoved ==
    \A i \in ProductIndices :
        /\ i <= Len(products')
        /\ products'[i].name = products[i].name
        /\ products'[i].best_frame.quality_score >= products[i].best_frame.quality_score

\* C1: after any prefix of the observed detections every product's
\* best_frame.quality_score is the maximum adjusted score observed so far for
\* exactly that name, and the mapping holds exactly the observed names; no
\* step lowers a stored score or removes a product.
C1_BestScoreIsRunningMax ==
    [](C1_ScoreIsMaxSoFar) /\ [][C1_NeverDecreasesNorRemoved]_vars

\* a product whose record was replaced by a later, better detection
C1_Witness ==
    \E i \in ProductIndices : \E s1, s2 \in SeenFor(products[i].name) :
        /\ s1.frame < s2.frame
        /\ s1.adjusted < s2.adjusted
        /\ products[i].best_frame.quality_score = s2.adjusted

\* C2: the retained best_frame (frame_number, timestamp, encoded image) is
\* that of the earliest processed frame in which the product reached its
\* maximum adjusted score: an equal score later does not replace it.
C2_TieKeepsEarliestFrame ==
    \A i \in ProductIndices :
        LET name  == products[i].name
            first == sampled_frames[EarliestFrameWith(name, MaxAdjusted(name))]
        IN  /\ products[i].best_frame.frame_number = first.frame_number
            /\ products[i].best_frame.timestamp = first.timestamp
            /\ products[i].best_frame.image_base64 = <<"jpeg_b64", first.image>>

\* the maximum was reached in two different frames and the first is kept
C2_Witness ==
    \E i \in ProductIndices : \E s1, s2 \in SeenFor(products[i].name) :
        /\ s1.frame < s2.frame
        /\ s1.adjusted = s2.adjusted
        /\ s1.adjusted = MaxAdjusted(products[i].name)
        /\ products[i].best_frame.frame_number = sampled_frames[s1.frame].frame_number

FrameErrors == {"call_failed", "json_failed", "exception"}

\* C3: a sampled frame whose processing ended in a classification or parse
\* error left the product mapping as it was when the frame began, nothing
\* was reported to the caller, and the loop stands at the next frame.
C3_ErrorFrameContributesNothing ==
    (pc = "frame" /\ outcomes # <<>> /\ outcomes[Len(outcomes)] \in FrameErrors)
        => /\ products = frame_entry
           /\ response = NoResponse
           /\ idx = Len(outcomes) + 1

SameLetter(a, b) ==
    a = b \/ {a, b} \in {{"a", "A"}, {"b", "B"}, {"c", "C"}}

\* title occurs in name when the case of letters is ignored
OccursIgnoringCase(title, name) ==
    \E off \in 0..(Len(name) - Len(title)) :
        \A k \in 1..Len(title) : SameLetter(title[k], name[off + k])

OnTarget(name) ==
    \/ request.product_title.kind # "str"
    \/ OccursIgnoringCase(request.product_title.chars, name)

\* C5: every observed detection was scored with its reported quality_score
\* when no title was given or the title occurs in its name ignoring case,
\* and with max(0, quality_score - 3) otherwise; on or off target, it is in
\* the mapping with at least that score.
C5_OffTargetDemotedNotDropped ==
    \A s \in seen :
        /\ s.adjusted = IF OnTarget(s.name) THEN s.reported
                        ELSE IF s.reported - 3 > 0 THEN s.reported - 3 ELSE 0
        /\ \E i \in ProductIndices :
             /\ products[i].name = s.name
             /\ products[i].best_frame.quality_score >= s.adjusted

\* with a title given: a name matching only when case is ignored kept its
\* score, an off-target one was demoted by 3, and one was floored at 0
C5_Witness ==
    /\ request.product_title = Str(<<"a", "B">>)
    /\ \E s \in seen : s.name = <<"A", "B", "c">> /\ s.adjusted = 4
    /\ \E s \in seen : s.name = <<"c">> /\ s.reported = 4 /\ s.adjusted = 1
    /\ \E s \in seen : s.name = <<"c">> /\ s.reported = 1 /\ s.adjusted = 0

\* 0-based position, in the extracted sequence, of a frame
PositionOf(frame_data) == frame_data.frame_number \div (Fps * FrameIntervalSeconds)

\* how many of the positions 0..n-1 are multiples of 5
EveryFifthCount(n) == Cardinality({k \in 0..(n - 1) : k % 5 = 0})

\* C4: the sampling step returns at most 50 frames, a subsequence of its
\* input in the original order: all N frames when N <= 5, positions
\* 0, 5, 10, ... when N > 5, and, when those are more than 50, exactly 50
\* frames at stride floor(count / 50) of that selection.
C4_SamplerSubsequence ==
    pc = "sampled" =>
        LET n     == Len(fn_in)
            count == EveryFifthCount(n)
        IN  /\ Len(fn_out) <= 50
            /\ \A i \in 1..Len(fn_out) :
                 /\ PositionOf(fn_out[i]) < n
                 /\ fn_out[i] = fn_in[PositionOf(fn_out[i]) + 1]
                 /\ i > 1 => PositionOf(fn_out[i - 1]) < PositionOf(fn_out[i])
            /\ n <= 5 => fn_out = fn_in
            /\ (n > 5 /\ count <= 50) =>
                 /\ Len(fn_out) = count
                 /\ \A i \in 1..count : PositionOf(fn_out[i]) = 5 * (i - 1)
            /\ (n > 5 /\ count > 50) =>
                 /\ Len(fn_out) = 50
                 /\ \A i \in 1..50 :
                      PositionOf(fn_out[i]) = 5 * ((count \div 50) * (i - 1))

\* 500 frames: 100 every-fifth frames, of which every second one is kept
C4_Witness ==
    /\ pc = "sampled"
    /\ Len(fn_in) = 500
    /\ Len(fn_out) = 50
    /\ PositionOf(fn_out[2]) = 10

Succeeded == pc = "done" /\ "success" \in DOMAIN response

\* position of a returned product's name among the keys of the mapping
InsertionRank(p) == CHOOSE i \in ProductIndices : products[i].name = p.name

\* C6: the returned list holds the products of the mapping by descending
\* best_frame.quality_score, equal scores in the order in which the names
\* entered the mapping, and sorting it again changes nothing.
C6_RankedDescendingStable ==
    Succeeded =>
        LET ranked == response.products
        IN  /\ Len(ranked) = Len(products)
            /\ \A i \in 1..Len(ranked) : \E j \in ProductIndices :
                 /\ ranked[i].name = products[j].name
                 /\ ranked[i].best_frame = products[j].best_frame
            /\ \A i, j \in 1..Len(ranked) :
                 i < j =>
                   /\ ranked[i].best_frame.quality_score >= ranked[j].best_frame.quality_score
                   /\ ranked[i].best_frame.quality_score = ranked[j].best_frame.quality_score
                        => InsertionRank(ranked[i]) < InsertionRank(ranked[j])
            /\ SortByScore(ranked) = ranked

\* two products with the same score, returned first-detected-first
C6_Witness ==
    /\ Succeeded
    /\ Len(response.products) = 2
    /\ response.products[1].best_frame.quality_score
         = response.products[2].best_frame.quality_score
    /\ response.products[1].name = products[1].name

\* a product as analyze_frames built it, without the enhancement fields
Primary(p) == [title |-> p.title, name |-> p.name, best_frame |-> p.best_frame]

EnhancementFields(p) == DOMAIN p \cap {"enhanced_image_base64", "enhanced_image_path"}

EnhancementAttempted == enh # NotAttempted

PrimaryResultIntact ==
    /\ "success" \in DOMAIN response
    /\ [i \in 1..Len(response.products) |-> Primary(response.products[i])]
         = SortByScore(prod_list)
    /\ \A i \in 2..Len(response.products) : EnhancementFields(response.products[i]) = {}

\* C7 as stated: whichever step of the enhancement stage failed, the run
\* succeeds with the ranked list unchanged and the top product carries
\* neither enhancement field.
C7_AnyFailureLeavesNoField ==
    (pc = "done" /\ EnhancementAttempted
       /\ (enh.save_frame = "raise" \/ enh.prompt = "None" \/ enh.image = "None"
           \/ enh.save_enhanced = "raise"))
        => /\ PrimaryResultIntact
           /\ EnhancementFields(response.products[1]) = {}

\* C7, amended: whichever step of the enhancement stage failed, the run
\* succeeds with the ranked list, titles and best_frame values unchanged.
\* The top product carries neither field when the best frame could not be
\* saved or no image was generated; a failed prompt generation falls back to
\* a fixed prompt and prevents nothing; a failure to save the generated
\* image leaves enhanced_image_base64 attached, without enhanced_image_path.
C7_EnhancementFailureContained ==
    (pc = "done" /\ EnhancementAttempted) =>
        /\ PrimaryResultIntact
        /\ (enh.save_frame = "raise" \/ enh.image = "None")
             => EnhancementFields(response.products[1]) = {}
        /\ (enh.image = "image" /\ enh.save_enhanced = "raise")
             => EnhancementFields(response.products[1]) = {"enhanced_image_base64"}
        /\ (enh.image = "image" /\ enh.save_enhanced = "ok")
             => EnhancementFields(response.products[1])
                  = {"enhanced_image_base64", "enhanced_image_path"}

\* prompt generation failed, the image was generated from the fallback
\* prompt, and saving it failed
C7_Witness ==
    /\ pc = "done"
    /\ enh.prompt = "None"
    /\ enh.save_enhanced = "raise"
    /\ Len(response.products) = 2
    /\ EnhancementFields(response.products[1]) = {"enhanced_image_base64"}

EveryCallFailed ==
    /\ frames # <<>>
    /\ \A i \in 1..Len(outcomes) : outcomes[i] = "call_failed"

\* C8: when frames were extracted and every classifier call failed, every
\* sampled frame was still attempted, no detection reached the aggregation
\* branch, and the handler returns the success response with no products.
C8_AllCallsFailedStillSucceeds ==
    (pc = "done" /\ EveryCallFailed) =>
        /\ Len(outcomes) = Len(sampled_frames)
        /\ seen = {}
        /\ products = <<>>
        /\ response = [success |-> TRUE, total_frames_analyzed |-> Len(frames),
                       products |-> <<>>]

C8_Witness ==
    /\ pc = "done"
    /\ Len(frames) = 2
    /\ outcomes = <<"call_failed", "call_failed">>
    /\ "success" \in DOMAIN response

\* C9: the handler ends either with the success response or with an error
\* response that is an error string and nothing else: no exception leaves
\* it and no product list accompanies an error.
C9_FailureIsErrorResponse ==
    pc = "done" => ("success" \in DOMAIN response \/ DOMAIN response = {"error"})

Least(S) == CHOOSE i \in S : \A j \in S : i <= j

Greatest(S) == CHOOSE i \in S : \A j \in S : i >= j

FencesOf(text) == {i \in 1..Len(text) : text[i] = "F"}

\* 1-based position of the first token after the fence marker at i
AfterFence(text, i) == IF i < Len(text) /\ text[i + 1] = "J" THEN i + 2 ELSE i + 1

NoWhiteSpace(text) == SelectSeq(text, LAMBDA t : t # "w")

\* the span from the first "{" to the last "}" of region decodes to an
\* object with a products list
SpanHoldsProducts(region) ==
    LET opens  == {i \in 1..Len(region) : region[i] = "{"}
        closes == {i \in 1..Len(region) : region[i] = "}"}
    IN  /\ opens # {} /\ closes # {}
        /\ Least(opens) < Greatest(closes)
        /\ NoWhiteSpace(SubSeq(region, Least(opens), Greatest(closes))) = <<"{", "P", "}">>

\* the text between the first fence marker and the next one, whenever the
\* text has a fence marker that is closed
RegionAsStated(text) ==
    LET fences == FencesOf(text)
        from   == AfterFence(text, Least(fences))
        closes == {i \in fences : i >= from}
    IN  IF fences # {} /\ closes # {}
        THEN SubSeq(text, from, Least(closes) - 1)
        ELSE text

\* the same with the precedence the parser gives the ```json marker, and
\* only when the fence encloses at least one character
RegionAmended(text) ==
    LET fences == FencesOf(text)
        tagged == {i \in fences : i < Len(text) /\ text[i + 1] = "J"}
        from   == AfterFence(text, IF tagged # {} THEN Least(tagged) ELSE Least(fences))
        closes == {i \in fences : i >= from}
    IN  IF fences # {} /\ closes # {} /\ Least(closes) > from
        THEN SubSeq(text, from, Least(closes) - 1)
        ELSE text

ParseKinds == {"products", "no_products", "decode_error", "not_object"}

\* C10 as stated: the payload is the first-"{"-to-last-"}" span of the text
\* between the first fence marker and the next one when a fence marker is
\* present, of the whole text otherwise; the parser yields the products
\* list when that span decodes to an object holding one, and otherwise an
\* empty detection list.
C10_SpanOfFirstFence ==
    pc = "parsed" =>
        /\ fn_out[1] \in ParseKinds
        /\ (fn_out[1] = "products") <=> SpanHoldsProducts(RegionAsStated(fn_in))

\* C10, amended: the fenced text is the one that follows the first ```json
\* marker, or the first ``` marker when no ```json marker exists, up to the
\* next ``` marker, and it is used only if that marker exists and at least
\* one character lies between the two; otherwise the whole text is used.
\* The payload is the first-"{"-to-last-"}" span of it; the parser yields
\* the products list when the span decodes to an object holding one, and
\* otherwise an empty detection list, never an error.
C10_SpanOfClosedNonEmptyFence ==
    pc = "parsed" =>
        /\ fn_out[1] \in ParseKinds
        /\ (fn_out[1] = "products") <=> SpanHoldsProducts(RegionAmended(fn_in))

\* a ```json fence around the payload, closed
C10_Witness ==
    /\ pc = "parsed"
    /\ fn_in = <<"F", "J", "{", "P", "}", "F">>
    /\ fn_out = <<"products">>

\* the url is a string naming one of the two accepted hosts
UrlAccepted ==
    /\ request.url.kind = "str"
    /\ \E i \in 1..Len(request.url.chars) :
         request.url.chars[i] \in {"youtube.com", "youtu.be"}

\* C11: the temporary directory exists from mkdtemp to the finally clause
\* and is gone when the handler has returned, whether it returns the success
\* response or an error (failed download, no frames, exception in the run);
\* a request rejected for a missing or invalid url never has one.
C11_TempDirRemovedOnEveryPath ==
    /\ pc = "done" => ~temp_dir
    /\ pc \in {"download", "extract", "analyze", "frame", "observe", "rank",
               "enhance", "respond", "finally"} => temp_dir
    /\ ~UrlAccepted => ~temp_dir

\* an error path that went through mkdtemp: no frames were extracted
C11_Witness ==
    /\ pc = "done"
    /\ ~temp_dir
    /\ UrlAccepted
    /\ response = ErrorResponse("No frames extracted from video")

====
